---- MODULE Spec2Model ----
(***************************************************************************)
(* wartycoon: the action executor (Player::perform_action and the methods  *)
(* it calls), the resource and unit arithmetic under it, the battlefield   *)
(* cells it appends to, and the turn loop of main / play_round that        *)
(* submits the actions.                                                    *)
(*                                                                         *)
(* Quantity, Capacity are i32 in the source.  Every value the model        *)
(* reaches stays far below 2^31 (the largest is a few thousand), so no     *)
(* arithmetic of the model can overflow and the width is not modelled.     *)
(***************************************************************************)
EXTENDS Integers, Sequences, FiniteSets, TLC

VARIABLES
    players,        \* main: Vec<Player>, in creation order
    game_plan,      \* main: GamePlan {fields, width, height}
    current_round,  \* main: the round being played (1-based)
    player_number,  \* main: index (1-based here) of the player whose turn it is
    continue_game,  \* main: false once a player of this round chose Quit
    rounds,         \* main: the number of rounds chosen (get_number_of_rounds)
    phase,          \* "playing" while the round loop runs, "evaluate" after it,
                    \* "done" when evaluate_game has returned
    outcome,        \* what evaluate_game printed: the winner of each field and
                    \* the result of the match
    explore_until,  \* bound of the exploration, no state of the program: the
                    \* last turn of the match that is explored
    last,           \* the call last made in play_round: who, the action, the
                    \* players and the plan before it, and its result
    ledger          \* no state of the program: for each player, what the
                    \* calls of perform_action that returned Ok have done so far

vars == <<players, game_plan, current_round, player_number, continue_game, rounds,
          phase, outcome, explore_until, last, ledger>>

----------------------------------------------------------------------------
(* limits.rs *)

BASE_CAPACITY == 200
BASE_COST == <<220, 100>>
ARCHER_COST == <<0, 10>>
WARRIOR_COST == <<10, 5>>
HARVEST_GAIN == <<200, 120>>
\* ARCHER_POWER = 1.9 and WARRIOR_POWER = 1.2 as the f64 nearest to them: an
\* f64 is modelled exactly, as [t, e] standing for (t * 2^56 + e) / (10 * 2^56),
\* t the tenths and e the distance from them in units of 2^-56 / 10
ARCHER_POWER == [t |-> 19, e |-> -64]
WARRIOR_POWER == [t |-> 12, e |-> -32]
DEFAULT_PLAN_WIDTH == 1
DEFAULT_PLAN_HEIGHT == 1

(* main.rs *)
DEFAULT_NUM_PLAYERS == 2

(* game.rs, get_number_of_rounds: the fewest rounds a match can have *)
MIN_ROUNDS == 10
\* value_types.rs: Quantity = i32
I32Max == 2147483647

----------------------------------------------------------------------------
(* Bounds of the exploration *)

\* turns explored from the start of a match: play_round is entered for the
\* first MaxTurns turns only (fewer than the MIN_ROUNDS rounds a match has)
MaxTurns == 9
\* the late match: both players have harvested in each of the first LateStart
\* rounds; LateTurns more turns are explored, in a match of LateStart +
\* LateRounds rounds
LateStart == 18
LateTurns == 5
LateRounds == 3
\* turns explored with a caller that passes any quantity
UncheckedTurns == 3
\* plans of up to MaxDim x MaxDim fields, BoardTurns turns explored on each
MaxDim == 2
BoardTurns == 2
\* evaluation: up to MaxDeposits deposits on the field of the 1 x 1 plan, and
\* plans of up to MaxFields fields
MaxDeposits == 4
MaxFields == 4
\* creation of the players: lines of up to MaxLineLen characters are typed,
\* then CreateTurns turns are explored
MaxLineLen == 2
CreateTurns == 2
\* Resource on its own: quantities 0..MaxBalance and the largest i32
MaxBalance == 5
\* small quantities a player may ask for, 1..SmallQty
SmallQty == 2

UnitTypes == {"Archer", "Warrior"}
Buildings == {"Base"}
Nicks == <<"A", "B">>

\* quantities the input layer can produce (units_action accepts n > 0 only):
\* small ones, one that fills a base exactly and one that exceeds it
Quantities == (1..SmallQty) \cup {BASE_CAPACITY, BASE_CAPACITY + 1}
\* quantities submitted with Conquer: a player of the explored turns holds
\* no more than a few units, so the small ones fall on both sides of the held count
ConquerQuantities == 1..SmallQty
\* quantities a caller of perform_action can pass (Quantity = i32)
NonPositive == {0, -1}
\* coordinates submitted with Conquer: the board's and one beyond it each way
XCoords == 0..DEFAULT_PLAN_WIDTH
YCoords == 0..DEFAULT_PLAN_HEIGHT

----------------------------------------------------------------------------
(* resources.rs: a Resource is modelled by its quantity *)

\* a faulty can_pay with the sign of the price slipped (accepts any price);
\* C2 tells it from can_pay
can_pay_sign_slip(self_quantity, quantity) == self_quantity + quantity >= 0

\* Resource::can_pay
can_pay(self_quantity, quantity) == self_quantity - quantity >= 0

\* Resource::add: [ok, quantity]
add(self_quantity, quantity) ==
    IF quantity = 0
    THEN [ok |-> FALSE, quantity |-> self_quantity]
    ELSE [ok |-> TRUE, quantity |-> self_quantity + quantity]

\* a faulty subtract that takes the quantity whether it can be paid or not;
\* C22 tells it from subtract
subtract_overdrawn(self_quantity, quantity) ==
    [ok |-> TRUE, quantity |-> self_quantity - quantity]

\* Resource::subtract: [ok, quantity]
subtract(self_quantity, quantity) ==
    IF can_pay(self_quantity, quantity)
    THEN [ok |-> TRUE, quantity |-> self_quantity - quantity]
    ELSE [ok |-> FALSE, quantity |-> self_quantity]

----------------------------------------------------------------------------
(* value_types.rs: FighterPower = f64. The arithmetic of evaluate_field is   *)
(* IEEE 754 binary64 with rounding to nearest, ties to even; it is modelled  *)
(* exactly for the magnitudes 2^-4 .. 2^15 the powers of a field move in     *)
(* (results below 2^-4 are differences of neighbouring values, hence exact)  *)

F64Zero == [t |-> 0, e |-> 0]
\* the literal 0.1 of evaluate_field as an f64: 0.1 + 0.4 * 2^-56
F64Tenth == [t |-> 1, e |-> 4]
\* the binary exponents of the magnitudes modelled
F64MinExponent == -4
F64MaxExponent == 14

F64Sign(a) ==
    IF a.t # 0 THEN (IF a.t > 0 THEN 1 ELSE -1)
    ELSE IF a.e > 0 THEN 1 ELSE IF a.e < 0 THEN -1 ELSE 0

F64Neg(a) == [t |-> -a.t, e |-> -a.e]

\* a >= 2^k, for a > 0
F64AtLeastPow2(a, k) ==
    LET l == a.t * (IF k < 0 THEN 2^(-k) ELSE 1)
        r == 10 * (IF k > 0 THEN 2^k ELSE 1)
    IN  l > r \/ (l = r /\ a.e >= 0)

\* 2^k modulo 20, for k >= 2
Pow2Mod20(k) == CASE k % 4 = 0 -> 16 [] k % 4 = 1 -> 12 [] k % 4 = 2 -> 4 [] OTHER -> 8

\* the k in from..F64MaxExponent with 2^k <= a < 2^(k + 1), for a >= 2^from
RECURSIVE F64Exponent(_, _)
F64Exponent(a, from) ==
    IF from < F64MaxExponent /\ F64AtLeastPow2(a, from + 1)
    THEN F64Exponent(a, from + 1)
    ELSE from

\* a > 0 rounded to a multiple of ulp, the unit in the last place, r2 being
\* the remainder of a by two units in the last place (r2 >= ulp: the multiple
\* below a is an odd one): to the nearest multiple, a tie to the even one
F64RoundTo(a, ulp, r2) ==
    IF 2 * (r2 % ulp) < ulp \/ (2 * (r2 % ulp) = ulp /\ r2 < ulp)
    THEN [a EXCEPT !.e = @ - (r2 % ulp)]
    ELSE [a EXCEPT !.e = @ + ulp - (r2 % ulp)]

\* the f64 nearest to a, for 2^k <= a < 2^(k + 1): the unit in the last place
\* is 2^(k - 52) = 10 * 2^(k + 4) units of e
F64RoundAt(a, k) ==
    F64RoundTo(a, 10 * 2^(k + 4),
               (2^(k + 4) * ((a.t * Pow2Mod20(52 - k)) % 20) + a.e) % (20 * 2^(k + 4)))

\* the f64 nearest to a > 0
F64RoundPositive(a) ==
    IF F64AtLeastPow2(a, F64MinExponent)
    THEN F64RoundAt(a, F64Exponent(a, F64MinExponent))
    ELSE a

F64WithSign(sign, a) == IF sign < 0 THEN F64Neg(a) ELSE a
F64Abs(a) == F64WithSign(F64Sign(a), a)
F64Round(a) == F64WithSign(F64Sign(a), F64RoundPositive(F64Abs(a)))

\* c * (quantity as f64)
F64Mul(c, quantity) == F64Round([t |-> c.t * quantity, e |-> c.e * quantity])
F64Add(a, b) == F64Round([t |-> a.t + b.t, e |-> a.e + b.e])
F64Sub(a, b) == F64Round([t |-> a.t - b.t, e |-> a.e - b.e])
F64Less(a, b) == F64Sign([t |-> a.t - b.t, e |-> a.e - b.e]) < 0
F64Max(a, b) == IF F64Less(a, b) THEN b ELSE a

----------------------------------------------------------------------------
(* troops.rs, buildings.rs: a Unit held by a player is modelled by its      *)
(* quantity, a Unit on a field by [unit_type, quantity]                     *)

\* a faulty unit_to_send that puts a single unit on the field whatever was
\* sent; C32 tells it from unit_to_send
unit_to_send_single(unit_type, quantity) == [unit_type |-> unit_type, quantity |-> 1]

\* Unit::unit_to_send
unit_to_send(unit_type, quantity) == [unit_type |-> unit_type, quantity |-> quantity]

\* Unit::train
train(self_quantity, quantity) == self_quantity + quantity

\* a faulty send_occupy that takes one unit whatever was sent; C12 tells it from
\* send_occupy
send_occupy_one(self_quantity, quantity) == self_quantity - 1

\* Unit::send_occupy
send_occupy(self_quantity, quantity) == self_quantity - quantity

\* a faulty unit_value that prices every unit as a warrior; C8 tells it from
\* unit_value
unit_value_one_price(unit_type) == WARRIOR_COST

\* HasValue for UnitType
unit_value(unit_type) == IF unit_type = "Archer" THEN ARCHER_COST ELSE WARRIOR_COST

\* HasPower for UnitType
power(unit_type) == IF unit_type = "Archer" THEN ARCHER_POWER ELSE WARRIOR_POWER

\* Unit::fighting_power, of a unit on a field
fighting_power(unit) == F64Mul(power(unit.unit_type), unit.quantity)

\* HasValue for Building
building_value(building) == BASE_COST

\* HasCapacity for Building
capacity(building) == BASE_CAPACITY

----------------------------------------------------------------------------
(* board.rs *)

\* GameField::new
GameField_new(x, y) == [x |-> x, y |-> y, units_occupying |-> <<>>]

\* a faulty UnitInField::new that records the units without their owner; C20
\* tells it from UnitInField_new
UnitInField_new_unowned(unit_owner, unit) == [owner |-> "", unit |-> unit]

\* UnitInField::new
UnitInField_new(unit_owner, unit) == [owner |-> unit_owner, unit |-> unit]

\* GamePlan::new: the fields are pushed for x in 0..width, y in 0..height, so
\* the field (x, y) is the (height * x + y)-th of the vector (0-based)
GamePlan_new(width, height) ==
    [fields |-> [i \in 1..(width * height) |->
                    GameField_new((i - 1) \div height, (i - 1) % height)],
     width |-> width,
     height |-> height]

\* a faulty get_game_field that counts the fields by rows (width * x + y);
\* C29 tells it from get_game_field
get_game_field_by_width(plan, x, y) ==
    IF plan.width * x + y < Len(plan.fields)
    THEN plan.width * x + y + 1
    ELSE 0

\* GamePlan::get_game_field: Vec::get_mut(height * x + y); 0 stands for None,
\* otherwise the (1-based) position of the field in plan.fields
get_game_field(plan, x, y) ==
    IF plan.height * x + y < Len(plan.fields)
    THEN plan.height * x + y + 1
    ELSE 0

\* a faulty add_units that puts the new units in front of the others; C19 tells
\* it from add_units
add_units_in_front(field, units) ==
    [field EXCEPT !.units_occupying = <<units>> \o @]

\* GameField::add_units
add_units(field, units) ==
    [field EXCEPT !.units_occupying = Append(@, units)]

\* Option<String>
None == <<>>
Some(name) == <<name>>

\* the keys of power_chart: the owners of the units on the field
owners(field) ==
    {field.units_occupying[i].owner : i \in DOMAIN field.units_occupying}

\* power_chart[owner] after the first n units of the field were added to it:
\* entry(owner).or_insert(0.0) += power, in the order of units_occupying
RECURSIVE power_chart_entry(_, _, _)
power_chart_entry(units, owner, n) ==
    IF n = 0 THEN F64Zero
    ELSE IF units[n].owner = owner
    THEN F64Add(power_chart_entry(units, owner, n - 1), fighting_power(units[n].unit))
    ELSE power_chart_entry(units, owner, n - 1)

power_chart(field) ==
    [o \in owners(field) |->
        power_chart_entry(field.units_occupying, o, Len(field.units_occupying))]

\* the fold of max over the chart's values (of a chart that is not empty)
highest_power(chart) ==
    CHOOSE p \in {chart[o] : o \in DOMAIN chart} :
        \A o \in DOMAIN chart : ~F64Less(p, chart[o])

\* |power - highest_power| < 0.1, on f64 values
within_reach(a_power, highest) == F64Less(F64Abs(F64Sub(a_power, highest)), F64Tenth)

\* the owners evaluate_field's filter keeps
is_unique(chart, highest) == {o \in DOMAIN chart : within_reach(chart[o], highest)}

\* the owner found, if the filter kept no other
unique_owner(kept) ==
    IF Cardinality(kept) # 1 THEN None ELSE Some(CHOOSE o \in kept : TRUE)

\* evaluate_field once the chart is built; an empty chart has no owner to find
field_winner(chart) ==
    IF DOMAIN chart = {} THEN None
    ELSE unique_owner(is_unique(chart, highest_power(chart)))

\* a faulty evaluate_field that returns the owner of the highest power without
\* looking for another within reach; C16 tells it from evaluate_field
evaluate_field_first_found(field) ==
    LET chart == power_chart(field)
    IN  IF DOMAIN chart = {} THEN None
        ELSE Some(CHOOSE o \in DOMAIN chart : chart[o] = highest_power(chart))

\* GameField::evaluate_field: the order the HashMap is iterated in decides
\* nothing, the owner found is returned only if no other is within reach
evaluate_field(field) == field_winner(power_chart(field))

\* what GamePlan::evaluate prints
NoFieldWon == [result |-> "no winner", winner |-> None, wins |-> 0, tied |-> 0]
Winner(name, wins) == [result |-> "winner", winner |-> Some(name), wins |-> wins, tied |-> 1]
Draw(n, wins) == [result |-> "draw", winner |-> None, wins |-> wins, tied |-> n]

\* the results of evaluate_field, field by field
fields_won(plan) == [i \in DOMAIN plan.fields |-> evaluate_field(plan.fields[i])]

\* winner_frequency: the number of fields of each owner that won one
winner_frequency(won) ==
    [o \in {won[i][1] : i \in {j \in DOMAIN won : won[j] # None}} |->
        Cardinality({i \in DOMAIN won : won[i] = Some(o)})]

\* the fold of max over the frequencies, from 0
highest_wins(frequency) ==
    IF DOMAIN frequency = {} THEN 0
    ELSE CHOOSE w \in {frequency[o] : o \in DOMAIN frequency} :
             \A o \in DOMAIN frequency : frequency[o] <= w

\* the message for the owners that have the highest number of fields
announce(tied, wins) ==
    IF tied = {} THEN NoFieldWon
    ELSE IF Cardinality(tied) = 1 THEN Winner(CHOOSE o \in tied : TRUE, wins)
    ELSE Draw(Cardinality(tied), wins)

\* possible_winner and is_unique of evaluate
possible_winner(frequency, highest) ==
    announce({o \in DOMAIN frequency : frequency[o] = highest}, highest)

\* a faulty evaluate that names an owner of the highest tally the winner without
\* looking for another with the same tally; C18 tells it from evaluate
evaluate_first_found(plan) ==
    LET frequency == winner_frequency(fields_won(plan))
    IN  IF DOMAIN frequency = {} THEN NoFieldWon
        ELSE LET first == CHOOSE o \in DOMAIN frequency :
                              frequency[o] = highest_wins(frequency)
             IN  Winner(first, frequency[first])

\* the message of evaluate for the frequencies counted
evaluate_frequency(frequency) == possible_winner(frequency, highest_wins(frequency))

\* GamePlan::evaluate
evaluate(plan) == evaluate_frequency(winner_frequency(fields_won(plan)))

\* before evaluate_game is called nothing has been printed
NotEvaluated == [evaluated |-> FALSE, fields |-> <<>>, game |-> NoFieldWon]

----------------------------------------------------------------------------
(* player.rs *)

\* Player::new
Player_new(nick) ==
    [nick |-> nick, buildings |-> <<>>, archers |-> 0, warriors |-> 0,
     wood |-> 0, gold |-> 0]

\* results of the player's methods: Ok(..) / Err(..) with the message kind,
\* the player and the plan as the call left them
Ret(ok, msg, player, plan) == [ok |-> ok, msg |-> msg, player |-> player, plan |-> plan]

\* the message pay_for_item formats: which of the two resources are short
cannot_pay_message(player, wood, gold) ==
    IF ~can_pay(player.wood, wood) /\ ~can_pay(player.gold, gold) THEN "not enough WOOD, GOLD"
    ELSE IF ~can_pay(player.wood, wood) THEN "not enough WOOD"
    ELSE IF ~can_pay(player.gold, gold) THEN "not enough GOLD"
    ELSE ""

\* a faulty pay_for_item that checks the wood only before it starts to pay, so
\* that a shortage of gold is found after the wood is gone; C1 tells it from
\* pay_for_item
pay_for_item_wood_checked(player, item_value, quantity) ==
    LET wood == item_value[1] * quantity
        gold == item_value[2] * quantity
    IN  IF can_pay(player.wood, wood)
        THEN LET w == subtract(player.wood, wood)
                 p1 == [player EXCEPT !.wood = w.quantity]
                 g == subtract(p1.gold, gold)
                 p2 == [p1 EXCEPT !.gold = g.quantity]
             IN  IF ~w.ok THEN [ok |-> FALSE, msg |-> "not enough WOOD", player |-> player]
                 ELSE IF ~g.ok THEN [ok |-> FALSE, msg |-> "not enough GOLD", player |-> p1]
                 ELSE [ok |-> TRUE, msg |-> "", player |-> p2]
        ELSE [ok |-> FALSE, msg |-> cannot_pay_message(player, wood, gold),
              player |-> player]

\* a faulty pay_for_item that takes the wood and leaves the gold; C33 tells it
\* from pay_for_item
pay_for_item_gold_kept(player, item_value, quantity) ==
    LET wood == item_value[1] * quantity
        gold == item_value[2] * quantity
    IN  IF can_pay(player.wood, wood) /\ can_pay(player.gold, gold)
        THEN LET w == subtract(player.wood, wood)
             IN  IF ~w.ok THEN [ok |-> FALSE, msg |-> "not enough WOOD", player |-> player]
                 ELSE [ok |-> TRUE, msg |-> "", player |-> [player EXCEPT !.wood = w.quantity]]
        ELSE [ok |-> FALSE, msg |-> cannot_pay_message(player, wood, gold),
              player |-> player]

\* Player::pay_for_item: [ok, msg, player]
pay_for_item(player, item_value, quantity) ==
    LET wood == item_value[1] * quantity
        gold == item_value[2] * quantity
    IN  IF can_pay(player.wood, wood) /\ can_pay(player.gold, gold)
        THEN LET w == subtract(player.wood, wood)
                 p1 == [player EXCEPT !.wood = w.quantity]
                 g == subtract(p1.gold, gold)
                 p2 == [p1 EXCEPT !.gold = g.quantity]
             IN  IF ~w.ok THEN [ok |-> FALSE, msg |-> "not enough WOOD", player |-> player]
                 ELSE IF ~g.ok THEN [ok |-> FALSE, msg |-> "not enough GOLD", player |-> p1]
                 ELSE [ok |-> TRUE, msg |-> "", player |-> p2]
        ELSE [ok |-> FALSE, msg |-> cannot_pay_message(player, wood, gold),
              player |-> player]

\* Player::number_of_buildings
number_of_buildings(player, building_type) ==
    Len(SelectSeq(player.buildings, LAMBDA b : b = building_type))

\* Player::fighters_capacity
fighters_capacity(player) ==
    Len(SelectSeq(player.buildings, LAMBDA b : b = "Base")) * capacity("Base")

\* Player::current_fighters_capacity
current_fighters_capacity(player) ==
    fighters_capacity(player) - player.archers - player.warriors

\* a faulty check_fighters_capacity that compares with the whole capacity, not
\* with what is left of it; C4 tells it from check_fighters_capacity
check_fighters_capacity_whole(player, new_quantity) ==
    ~(fighters_capacity(player) < new_quantity)

\* a faulty check_fighters_capacity that lets every quantity through; C31
\* tells it from check_fighters_capacity
check_fighters_capacity_unbounded(player, new_quantity) == TRUE

\* Player::check_fighters_capacity: TRUE for Ok(())
check_fighters_capacity(player, new_quantity) ==
    ~(current_fighters_capacity(player) < new_quantity)

\* a faulty enough_units_to_send that lets one unit too many through; C11 tells
\* it from enough_units_to_send
enough_units_to_send_one_more(player, unit_type, quantity) ==
    LET current_quantity ==
            IF unit_type = "Archer" THEN player.archers ELSE player.warriors
    IN  ~(current_quantity < quantity - 1)

\* a faulty enough_units_to_send that counts the units of both kinds; C3 tells
\* it from enough_units_to_send
enough_units_to_send_any_kind(player, unit_type, quantity) ==
    ~(player.archers + player.warriors < quantity)

\* Player::enough_units_to_send: TRUE for Ok(())
enough_units_to_send(player, unit_type, quantity) ==
    LET current_quantity ==
            IF unit_type = "Archer" THEN player.archers ELSE player.warriors
    IN  ~(current_quantity < quantity)

\* a faulty build_a_building that takes the payment for granted (the error of
\* pay_for_item is dropped); C6 tells it from build_a_building
build_a_building_unpaid(player, plan, building_type) ==
    LET paid == pay_for_item(player, building_value(building_type), 1)
    IN  Ret(TRUE, "built",
            [paid.player EXCEPT !.buildings = Append(@, building_type)], plan)

\* Player::build_a_building
build_a_building(player, plan, building_type) ==
    LET paid == pay_for_item(player, building_value(building_type), 1)
    IN  IF ~paid.ok
        THEN Ret(FALSE, paid.msg, paid.player, plan)
        ELSE Ret(TRUE, "built",
                 [paid.player EXCEPT !.buildings = Append(@, building_type)], plan)

\* a faulty harvest that credits the two gains to the wrong resources; C5 tells
\* it from harvest
harvest_exchanged(player, plan) ==
    LET w == add(player.wood, HARVEST_GAIN[2])
        p1 == [player EXCEPT !.wood = w.quantity]
        g == add(p1.gold, HARVEST_GAIN[1])
        p2 == [p1 EXCEPT !.gold = g.quantity]
    IN  IF ~w.ok THEN Ret(FALSE, "cannot add 0", player, plan)
        ELSE IF ~g.ok THEN Ret(FALSE, "cannot add 0", p1, plan)
        ELSE Ret(TRUE, "harvested", p2, plan)

\* Player::harvest
harvest(player, plan) ==
    LET w == add(player.wood, HARVEST_GAIN[1])
        p1 == [player EXCEPT !.wood = w.quantity]
        g == add(p1.gold, HARVEST_GAIN[2])
        p2 == [p1 EXCEPT !.gold = g.quantity]
    IN  IF ~w.ok THEN Ret(FALSE, "cannot add 0", player, plan)
        ELSE IF ~g.ok THEN Ret(FALSE, "cannot add 0", p1, plan)
        ELSE Ret(TRUE, "harvested", p2, plan)

\* a faulty train_units that takes the payment before it checks the capacity;
\* C7 tells it from train_units
train_units_pay_first(player, plan, unit_type, quantity) ==
    LET paid == pay_for_item(player, unit_value(unit_type), quantity)
    IN  IF ~paid.ok
        THEN Ret(FALSE, paid.msg, paid.player, plan)
        ELSE IF ~check_fighters_capacity(paid.player, quantity)
        THEN Ret(FALSE, "over capacity", paid.player, plan)
        ELSE Ret(TRUE, "trained",
                 IF unit_type = "Archer"
                 THEN [paid.player EXCEPT !.archers = train(@, quantity)]
                 ELSE [paid.player EXCEPT !.warriors = train(@, quantity)],
                 plan)

\* Player::train_units
train_units(player, plan, unit_type, quantity) ==
    IF ~check_fighters_capacity(player, quantity)
    THEN Ret(FALSE, "over capacity", player, plan)
    ELSE LET paid == pay_for_item(player, unit_value(unit_type), quantity)
         IN  IF ~paid.ok
             THEN Ret(FALSE, paid.msg, paid.player, plan)
             ELSE Ret(TRUE, "trained",
                      IF unit_type = "Archer"
                      THEN [paid.player EXCEPT !.archers = train(@, quantity)]
                      ELSE [paid.player EXCEPT !.warriors = train(@, quantity)],
                      plan)

\* Player::occupy_fields; game_field is the result of get_game_field
occupy_fields(player, plan, game_field, unit_type, quantity) ==
    IF game_field = 0
    THEN Ret(FALSE, "field does not exist", player, plan)
    ELSE IF ~enough_units_to_send(player, unit_type, quantity)
    THEN Ret(FALSE, "not enough units", player, plan)
    ELSE Ret(TRUE, "sent",
             IF unit_type = "Archer"
             THEN [player EXCEPT !.archers = send_occupy(@, quantity)]
             ELSE [player EXCEPT !.warriors = send_occupy(@, quantity)],
             [plan EXCEPT !.fields[game_field] =
                 add_units(@, UnitInField_new(player.nick,
                                              unit_to_send(unit_type, quantity)))])

\* Player::train_max_units (i32 division; the operands are never negative here)
train_max_units(player, unit_type) ==
    LET unit_wood == unit_value(unit_type)[1]
        unit_gold == unit_value(unit_type)[2]
        min(a, b) == IF a < b THEN a ELSE b
    IN  IF unit_type = "Archer"
        THEN min(player.gold \div unit_gold, fighters_capacity(player))
        ELSE min(min(player.wood \div unit_wood, player.gold \div unit_gold),
                 fighters_capacity(player))

\* Player::send_max_units
send_max_units(player, unit_type) ==
    IF unit_type = "Archer" THEN player.archers ELSE player.warriors

\* a faulty perform_action that rejects the actions it has no arm for; C26
\* tells it from perform_action
perform_action_rejecting(player, action, plan) ==
    CASE action.type = "Build" -> build_a_building(player, plan, action.building)
      [] action.type = "Conquer" ->
            occupy_fields(player, plan, get_game_field(plan, action.x, action.y),
                          action.unit_type, action.quantity)
      [] action.type = "Harvest" -> harvest(player, plan)
      [] action.type = "Train" -> train_units(player, plan, action.unit_type, action.quantity)
      [] OTHER -> Ret(FALSE, "Unreachable statement", player, plan)

\* Player::perform_action
perform_action(player, action, plan) ==
    CASE action.type = "Build" -> build_a_building(player, plan, action.building)
      [] action.type = "Conquer" ->
            occupy_fields(player, plan, get_game_field(plan, action.x, action.y),
                          action.unit_type, action.quantity)
      [] action.type = "Harvest" -> harvest(player, plan)
      [] action.type = "Train" -> train_units(player, plan, action.unit_type, action.quantity)
      [] OTHER -> Ret(TRUE, "Unreachable statement", player, plan)

----------------------------------------------------------------------------
(* actions.rs: the values of enum Actions *)

Build(building) == [type |-> "Build", building |-> building]
Harvest == [type |-> "Harvest"]
Train(unit_type, quantity) ==
    [type |-> "Train", unit_type |-> unit_type, quantity |-> quantity]
Conquer(x, y, unit_type, quantity) ==
    [type |-> "Conquer", x |-> x, y |-> y, unit_type |-> unit_type, quantity |-> quantity]
Quit == [type |-> "Quit"]

----------------------------------------------------------------------------
(* main.rs, game.rs: the round loop *)

\* the ledger of a player for whom perform_action has not returned Ok yet
Ledger_new == [harvests |-> 0, builds |-> 0, archers |-> 0, warriors |-> 0, conquers |-> 0]

\* the ledger after perform_action(action) has returned: Err leaves it alone,
\* Ok counts the harvest, the building or the Conquer and adds the units trained
Ledger_record(entry, action, ok) ==
    IF ~ok THEN entry
    ELSE CASE action.type = "Harvest" -> [entry EXCEPT !.harvests = @ + 1]
           [] action.type = "Build" -> [entry EXCEPT !.builds = @ + 1]
           [] action.type = "Train" /\ action.unit_type = "Archer" ->
                 [entry EXCEPT !.archers = @ + action.quantity]
           [] action.type = "Train" /\ action.unit_type = "Warrior" ->
                 [entry EXCEPT !.warriors = @ + action.quantity]
           [] action.type = "Conquer" -> [entry EXCEPT !.conquers = @ + 1]
           [] OTHER -> entry

\* The start of a match: main has created the plan and the players; the
\* first `turns` turns are explored.
StartOfMatch(turns) ==
    /\ players = [n \in 1..DEFAULT_NUM_PLAYERS |-> Player_new(Nicks[n])]
    /\ game_plan = GamePlan_new(DEFAULT_PLAN_WIDTH, DEFAULT_PLAN_HEIGHT)
    /\ current_round = 1
    /\ player_number = 1
    /\ continue_game = TRUE
    /\ rounds = MIN_ROUNDS
    /\ phase = "playing"
    /\ outcome = NotEvaluated
    /\ explore_until = turns
    /\ last = [player |-> 0, action |-> [type |-> "None"], ok |-> TRUE, msg |-> "",
               before |-> players, plan_before |-> game_plan]
    /\ ledger = [n \in 1..DEFAULT_NUM_PLAYERS |-> Ledger_new]

InitStart == StartOfMatch(MaxTurns)

\* a player after n harvests and nothing else
Harvested(nick, n) ==
    [Player_new(nick) EXCEPT !.wood = n * HARVEST_GAIN[1], !.gold = n * HARVEST_GAIN[2]]

\* The late match, after LateStart rounds in which both players harvested
\* (Harvest is the one action that succeeds for a new player, and it never
\* fails): the state main is in when round LateStart + 1 begins, the last call
\* having been the last player's harvest of round LateStart.
InitLate ==
    /\ players = [n \in 1..DEFAULT_NUM_PLAYERS |-> Harvested(Nicks[n], LateStart)]
    /\ game_plan = GamePlan_new(DEFAULT_PLAN_WIDTH, DEFAULT_PLAN_HEIGHT)
    /\ current_round = LateStart + 1
    /\ player_number = 1
    /\ continue_game = TRUE
    /\ rounds = LateStart + LateRounds
    /\ phase = "playing"
    /\ outcome = NotEvaluated
    /\ explore_until = LateStart * DEFAULT_NUM_PLAYERS + LateTurns
    /\ last = [player |-> DEFAULT_NUM_PLAYERS, action |-> Harvest, ok |-> TRUE,
               msg |-> "harvested",
               before |-> [n \in 1..DEFAULT_NUM_PLAYERS |->
                             Harvested(Nicks[n], IF n = DEFAULT_NUM_PLAYERS
                                                 THEN LateStart - 1 ELSE LateStart)],
               plan_before |-> game_plan]
    /\ ledger = [n \in 1..DEFAULT_NUM_PLAYERS |->
                   [Ledger_new EXCEPT !.harvests = LateStart]]

Init == InitStart \/ InitLate

\* turns begun so far, the current one included
turns_begun == (current_round - 1) * Len(players) + player_number

\* a faulty end of turn that keeps the last player_exit only (continue_game =
\* player_exit instead of continue_game &= player_exit); C25 tells it from
\* EndOfTurn
EndOfTurn_last_exit_only(player_exit) ==
    IF player_number < Len(players)
    THEN /\ player_number' = player_number + 1
         /\ continue_game' = player_exit
         /\ UNCHANGED <<current_round, phase>>
    ELSE IF player_exit /\ current_round < rounds
    THEN /\ current_round' = current_round + 1
         /\ player_number' = 1
         /\ continue_game' = TRUE
         /\ UNCHANGED phase
    ELSE /\ phase' = "evaluate"
         /\ continue_game' = player_exit
         /\ UNCHANGED <<current_round, player_number>>

\* a faulty end of turn that begins the next round whatever the number of
\* rounds chosen; C28 tells it from EndOfTurn
EndOfTurn_no_last_round(player_exit) ==
    IF player_number < Len(players)
    THEN /\ player_number' = player_number + 1
         /\ continue_game' = (continue_game /\ player_exit)
         /\ UNCHANGED <<current_round, phase>>
    ELSE IF continue_game /\ player_exit
    THEN /\ current_round' = current_round + 1
         /\ player_number' = 1
         /\ continue_game' = TRUE
         /\ UNCHANGED phase
    ELSE /\ phase' = "evaluate"
         /\ continue_game' = FALSE
         /\ UNCHANGED <<current_round, player_number>>

\* main: what follows a finished play_round (it returned player_exit): the next
\* player of the round, or after the last one the next round, or the evaluation
\* when somebody quit or the chosen rounds are played
EndOfTurn(player_exit) ==
    LET cont == continue_game /\ player_exit
    IN  IF player_number < Len(players)
        THEN /\ player_number' = player_number + 1
             /\ continue_game' = cont
             /\ UNCHANGED <<current_round, phase>>
        ELSE IF cont /\ current_round < rounds
        THEN /\ current_round' = current_round + 1
             /\ player_number' = 1
             /\ continue_game' = TRUE
             /\ UNCHANGED phase
        ELSE /\ phase' = "evaluate"
             /\ continue_game' = cont
             /\ UNCHANGED <<current_round, player_number>>

\* a faulty play_round that returns after a rejected action as well; C27 tells
\* it from Perform
Perform_once(action) ==
    /\ turns_begun <= explore_until
    /\ \E r \in {perform_action(players[player_number], action, game_plan)} :
           /\ players' = [players EXCEPT ![player_number] = r.player]
           /\ game_plan' = r.plan
           /\ last' = [player |-> player_number, action |-> action,
                       ok |-> r.ok, msg |-> r.msg,
                       before |-> players, plan_before |-> game_plan]
           /\ ledger' = [ledger EXCEPT ![player_number] = Ledger_record(@, action, r.ok)]
           /\ EndOfTurn(TRUE)
    /\ UNCHANGED <<rounds, outcome, explore_until>>

\* play_round, one pass of its loop with a confirmed action other than Quit:
\* perform_action; Ok ends the turn, Err asks the same player again
Perform(action) ==
    /\ turns_begun <= explore_until
    /\ \E r \in {perform_action(players[player_number], action, game_plan)} :
           /\ players' = [players EXCEPT ![player_number] = r.player]
           /\ game_plan' = r.plan
           /\ last' = [player |-> player_number, action |-> action,
                       ok |-> r.ok, msg |-> r.msg,
                       before |-> players, plan_before |-> game_plan]
           /\ ledger' = [ledger EXCEPT ![player_number] = Ledger_record(@, action, r.ok)]
           /\ IF r.ok
              THEN EndOfTurn(TRUE)
              ELSE UNCHANGED <<current_round, player_number, continue_game, phase>>
    /\ UNCHANGED <<rounds, outcome, explore_until>>

\* play_round with a confirmed Quit: returns false, nothing is performed
PlayerQuits ==
    /\ phase = "playing"
    /\ turns_begun <= explore_until
    /\ last' = [player |-> player_number, action |-> Quit, ok |-> TRUE, msg |-> "quit",
                before |-> players, plan_before |-> game_plan]
    /\ EndOfTurn(FALSE)
    /\ UNCHANGED <<players, game_plan, rounds, outcome, explore_until, ledger>>

\* main after the round loop: evaluate_game(&game_plan)
EvaluateGame ==
    /\ phase = "evaluate"
    /\ phase' = "done"
    /\ outcome' = [evaluated |-> TRUE,
                   fields |-> [i \in DOMAIN game_plan.fields |->
                                 evaluate_field(game_plan.fields[i])],
                   game |-> evaluate(game_plan)]
    /\ UNCHANGED <<players, game_plan, current_round, player_number, continue_game,
                   rounds, explore_until, last, ledger>>

BuildActions == {Build(b) : b \in Buildings}
TrainActions == {Train(t, q) : t \in UnitTypes, q \in Quantities}
ConquerActions ==
    {Conquer(x, y, t, q) : x \in XCoords, y \in YCoords, t \in UnitTypes,
                           q \in ConquerQuantities}

\* get_player_action returned the action a and confirm_action confirmed it
DoBuild == \E a \in BuildActions : phase = "playing" /\ Perform(a)
DoHarvest == phase = "playing" /\ Perform(Harvest)
DoTrain == \E a \in TrainActions : phase = "playing" /\ Perform(a)
DoConquer == \E a \in ConquerActions : phase = "playing" /\ Perform(a)

\* units_action shows the player train_max_units / send_max_units of each unit
\* type before asking for the quantity: the player asks for exactly that many
DoTrainMax ==
    \E t \in UnitTypes :
        /\ phase = "playing"
        /\ train_max_units(players[player_number], t) > 0
        /\ Perform(Train(t, train_max_units(players[player_number], t)))
DoConquerMax ==
    \E t \in UnitTypes :
        /\ phase = "playing"
        /\ send_max_units(players[player_number], t) > 0
        /\ Perform(Conquer(DEFAULT_PLAN_WIDTH - 1, DEFAULT_PLAN_HEIGHT - 1, t,
                            send_max_units(players[player_number], t)))

Next ==
    \/ DoBuild
    \/ DoHarvest
    \/ DoTrain
    \/ DoConquer
    \/ DoTrainMax
    \/ DoConquerMax
    \/ PlayerQuits
    \/ EvaluateGame

Spec == Init /\ [][Next]_vars

\* The same loop around a caller that does not filter the quantities the way
\* units_action does: perform_action is public and takes any Quantity.
TrainActionsAny ==
    {Train(t, q) : t \in UnitTypes, q \in Quantities \cup NonPositive}
ConquerActionsAny ==
    {Conquer(x, y, t, q) : x \in XCoords, y \in YCoords, t \in UnitTypes,
                           q \in ConquerQuantities \cup NonPositive}

DoTrainAny == \E a \in TrainActionsAny : phase = "playing" /\ Perform(a)
DoConquerAny == \E a \in ConquerActionsAny : phase = "playing" /\ Perform(a)
\* perform_action takes Actions::Quit as well, which play_round never passes
DoQuitAny == phase = "playing" /\ Perform(Quit)

NextUnchecked ==
    \/ DoBuild
    \/ DoHarvest
    \/ DoTrainAny
    \/ DoConquerAny
    \/ DoQuitAny
    \/ PlayerQuits
    \/ EvaluateGame

InitUnchecked == StartOfMatch(UncheckedTurns)

SpecUnchecked == InitUnchecked /\ [][NextUnchecked]_vars

----------------------------------------------------------------------------
(* Plans of other dimensions: GamePlan::new and generate_game_plan take any *)
(* width and height, and perform_action any coordinates                     *)

\* a player who harvested in each of the first LateStart rounds, then built a
\* base and trained SmallQty archers and, if with_warriors, SmallQty warriors
Equipped(nick, with_warriors) ==
    LET plan == GamePlan_new(DEFAULT_PLAN_WIDTH, DEFAULT_PLAN_HEIGHT)
        p1 == build_a_building(Harvested(nick, LateStart), plan, "Base").player
        p2 == train_units(p1, plan, "Archer", SmallQty).player
    IN  IF with_warriors THEN train_units(p2, plan, "Warrior", SmallQty).player ELSE p2

\* what Equipped has done
Ledger_equipped(with_warriors) ==
    [Ledger_new EXCEPT !.harvests = LateStart, !.builds = 1, !.archers = SmallQty,
                       !.warriors = IF with_warriors THEN SmallQty ELSE 0]

BoardDims == 1..MaxDim
BoardCoords == 0..MaxDim

\* the match on a plan of width x height, each player having spent the three
\* rounds after the harvest on a base, archers and warriors
StartOnBoard(width, height) ==
    /\ players = [n \in 1..DEFAULT_NUM_PLAYERS |-> Equipped(Nicks[n], TRUE)]
    /\ game_plan = GamePlan_new(width, height)
    /\ current_round = LateStart + 4
    /\ player_number = 1
    /\ continue_game = TRUE
    /\ rounds = LateStart + 4 + LateRounds
    /\ phase = "playing"
    /\ outcome = NotEvaluated
    /\ explore_until = (LateStart + 3) * DEFAULT_NUM_PLAYERS + BoardTurns
    /\ last = [player |-> DEFAULT_NUM_PLAYERS, action |-> Train("Warrior", SmallQty),
               ok |-> TRUE, msg |-> "trained",
               before |-> [n \in 1..DEFAULT_NUM_PLAYERS |->
                             Equipped(Nicks[n], n # DEFAULT_NUM_PLAYERS)],
               plan_before |-> game_plan]
    /\ ledger = [n \in 1..DEFAULT_NUM_PLAYERS |-> Ledger_equipped(TRUE)]

InitBoard == \E width \in BoardDims, height \in BoardDims : StartOnBoard(width, height)

ConquerBoardActions ==
    {Conquer(x, y, t, q) : x \in BoardCoords, y \in BoardCoords, t \in UnitTypes,
                           q \in ConquerQuantities}

DoConquerBoard == \E a \in ConquerBoardActions : phase = "playing" /\ Perform(a)

NextBoard ==
    \/ DoConquerBoard
    \/ DoHarvest
    \/ PlayerQuits
    \/ EvaluateGame

SpecBoard == InitBoard /\ [][NextBoard]_vars

----------------------------------------------------------------------------
(* evaluate_game on the plans the round loop can leave behind: the fields'   *)
(* contents are drawn from bounded sets                                      *)

\* the units of one Conquer; the quantities are chosen so that the powers of
\* two players can be equal or 0.1 apart (7 archers 13.3, 11 warriors 13.2;
\* 5 archers 9.5, 8 warriors 9.6)
UnitsSent ==
    {unit_to_send("Archer", 2), unit_to_send("Archer", 3), unit_to_send("Archer", 5),
     unit_to_send("Warrior", 8), unit_to_send("Warrior", 11)}

FieldDeposits ==
    {UnitInField_new(Nicks[n], u) : n \in 1..DEFAULT_NUM_PLAYERS, u \in UnitsSent}

\* the deposits of one field after up to MaxDeposits successful Conquers
DepositSeqs == UNION {[1..n -> FieldDeposits] : n \in 0..MaxDeposits}

\* what a field of a match on several fields holds: nothing, the units of one
\* player, or equal units of both
FieldChoices ==
    {<<>>,
     <<UnitInField_new(Nicks[1], unit_to_send("Archer", 1))>>,
     <<UnitInField_new(Nicks[2], unit_to_send("Archer", 1))>>,
     <<UnitInField_new(Nicks[1], unit_to_send("Archer", 1)),
       UnitInField_new(Nicks[2], unit_to_send("Archer", 1))>>}

\* the plan with the given deposits on its fields
PlanWith(plan, deposits) ==
    [plan EXCEPT !.fields = [i \in DOMAIN plan.fields |->
                               [plan.fields[i] EXCEPT !.units_occupying = deposits[i]]]]

\* the round loop has ended and left this plan (evaluate_game reads the plan
\* only: the players and the ledger are those of StartOnBoard)
AfterMatch(plan) ==
    /\ players = [n \in 1..DEFAULT_NUM_PLAYERS |-> Equipped(Nicks[n], TRUE)]
    /\ game_plan = plan
    /\ current_round = LateStart + LateRounds
    /\ player_number = DEFAULT_NUM_PLAYERS
    /\ continue_game = TRUE
    /\ rounds = LateStart + LateRounds
    /\ phase = "evaluate"
    /\ outcome = NotEvaluated
    /\ explore_until = 0
    /\ last = [player |-> 0, action |-> [type |-> "None"], ok |-> TRUE, msg |-> "",
               before |-> players, plan_before |-> game_plan]
    /\ ledger = [n \in 1..DEFAULT_NUM_PLAYERS |-> Ledger_equipped(TRUE)]

\* the 1 x 1 plan of main with any deposits on its field
InitField ==
    \E deposits \in DepositSeqs :
        AfterMatch(PlanWith(GamePlan_new(DEFAULT_PLAN_WIDTH, DEFAULT_PLAN_HEIGHT),
                            <<deposits>>))

\* a plan of several fields, decided or not
InitMatch ==
    \E width \in 1..MaxFields :
        \E deposits \in [1..width -> FieldChoices] :
            AfterMatch(PlanWith(GamePlan_new(width, DEFAULT_PLAN_HEIGHT), deposits))

InitEval == InitField \/ InitMatch

NextEval == EvaluateGame

SpecEval == InitEval /\ [][NextEval]_vars

----------------------------------------------------------------------------
(* game.rs: create_players, before the first round. A line of input is a    *)
(* sequence of characters and a nick is the line trimmed                     *)

\* the characters of the lines typed: two letters and a blank
Chars == {"a", "b", " "}
Whitespace == {" "}
Lines == UNION {[1..n -> Chars] : n \in 0..MaxLineLen}

\* str::trim_start
RECURSIVE trim_start(_)
trim_start(line) ==
    IF line # <<>> /\ Head(line) \in Whitespace THEN trim_start(Tail(line)) ELSE line

\* str::trim_end
RECURSIVE trim_end(_)
trim_end(line) ==
    IF line # <<>> /\ line[Len(line)] \in Whitespace
    THEN trim_end(SubSeq(line, 1, Len(line) - 1))
    ELSE line

\* str::trim
trim(line) == trim_end(trim_start(line))

\* a faulty create_player that does not look for the nick among the players;
\* C21 tells it from create_player
create_player_unchecked(player_nick, existing) ==
    [ok |-> TRUE, msg |-> "created", player |-> Player_new(player_nick)]

\* create_player: [ok, msg, player]
create_player(player_nick, existing) ==
    IF \E n \in DOMAIN existing : existing[n].nick = player_nick
    THEN [ok |-> FALSE, msg |-> "player exists", player |-> Player_new(player_nick)]
    ELSE [ok |-> TRUE, msg |-> "created", player |-> Player_new(player_nick)]

\* main before create_players: the plan is generated, no player exists yet
InitCreate ==
    /\ players = <<>>
    /\ game_plan = GamePlan_new(DEFAULT_PLAN_WIDTH, DEFAULT_PLAN_HEIGHT)
    /\ current_round = 1
    /\ player_number = 1
    /\ continue_game = TRUE
    /\ rounds = MIN_ROUNDS
    /\ phase = "creating"
    /\ outcome = NotEvaluated
    /\ explore_until = CreateTurns
    /\ last = [player |-> 0, action |-> [type |-> "None"], ok |-> TRUE, msg |-> "",
               before |-> players, plan_before |-> game_plan]
    /\ ledger = <<>>

\* create_players, one pass of its loop: a line is read and trimmed; Ok pushes
\* the player, Err asks again; after the last player the rounds begin
CreatePlayer ==
    /\ phase = "creating"
    /\ \E line \in Lines :
          \E r \in {create_player(trim(line), players)} :
             /\ players' = IF r.ok THEN Append(players, r.player) ELSE players
             /\ ledger' = IF r.ok THEN Append(ledger, Ledger_new) ELSE ledger
             /\ phase' = IF r.ok /\ Len(players) + 1 = DEFAULT_NUM_PLAYERS
                         THEN "playing" ELSE "creating"
             /\ last' = [player |-> 0,
                         action |-> [type |-> "Create", line |-> line, nick |-> trim(line)],
                         ok |-> r.ok, msg |-> r.msg,
                         before |-> players, plan_before |-> game_plan]
    /\ UNCHANGED <<game_plan, current_round, player_number, continue_game, rounds,
                   outcome, explore_until>>

NextCreate ==
    \/ CreatePlayer
    \/ DoHarvest
    \/ DoBuild
    \/ PlayerQuits
    \/ EvaluateGame

SpecCreate == InitCreate /\ [][NextCreate]_vars

----------------------------------------------------------------------------
(* resources.rs called on its own: one call of Resource::subtract or         *)
(* Resource::add on the wood of a player, the quantity being any i32 for     *)
(* which the call's arithmetic stays within i32                              *)

I32Min == -I32Max - 1
\* a + b and a - b are i32 values (the sums themselves are not formed when they are not)
AddInI32(a, b) == IF b >= 0 THEN a <= I32Max - b ELSE a >= I32Min - b
SubInI32(a, b) == IF b >= 0 THEN a >= I32Min + b ELSE a <= I32Max + b

\* the quantities of the resource before the call
Balances == (0..MaxBalance) \cup {I32Max}
\* the quantities passed
Amounts == ((-(MaxBalance + 1))..(MaxBalance + 1)) \cup {I32Min, I32Max}

InitResource ==
    /\ \E balance \in Balances :
          players = [n \in 1..DEFAULT_NUM_PLAYERS |->
                       IF n = 1 THEN [Player_new(Nicks[n]) EXCEPT !.wood = balance]
                       ELSE Player_new(Nicks[n])]
    /\ game_plan = GamePlan_new(DEFAULT_PLAN_WIDTH, DEFAULT_PLAN_HEIGHT)
    /\ current_round = 1
    /\ player_number = 1
    /\ continue_game = TRUE
    /\ rounds = MIN_ROUNDS
    /\ phase = "resource"
    /\ outcome = NotEvaluated
    /\ explore_until = 0
    /\ last = [player |-> 0, action |-> [type |-> "None"], ok |-> TRUE, msg |-> "",
               before |-> players, plan_before |-> game_plan]
    /\ ledger = [n \in 1..DEFAULT_NUM_PLAYERS |-> Ledger_new]

\* the call has returned r
ResourceCalled(name, amount, r) ==
    /\ players' = [players EXCEPT ![1].wood = r.quantity]
    /\ last' = [player |-> 0, action |-> [type |-> name, quantity |-> amount],
                ok |-> r.ok, msg |-> IF r.ok THEN "" ELSE name,
                before |-> players, plan_before |-> game_plan]
    /\ phase' = "resource called"
    /\ UNCHANGED <<game_plan, current_round, player_number, continue_game, rounds,
                   outcome, explore_until, ledger>>

\* wood.subtract(amount)
ResourceSubtract ==
    /\ phase = "resource"
    /\ \E amount \in Amounts :
          /\ SubInI32(players[1].wood, amount)
          /\ ResourceCalled("subtract", amount, subtract(players[1].wood, amount))

\* wood.add(amount)
ResourceAdd ==
    /\ phase = "resource"
    /\ \E amount \in Amounts :
          /\ AddInI32(players[1].wood, amount)
          /\ ResourceCalled("add", amount, add(players[1].wood, amount))

NextResource == ResourceSubtract \/ ResourceAdd

SpecResource == InitResource /\ [][NextResource]_vars

----------------------------------------------------------------------------
(* main.rs: a whole match of the fewest rounds get_number_of_rounds accepts, *)
(* the players harvesting, building or quitting, every turn coming to its end *)

InitMatchLoop == StartOfMatch(MIN_ROUNDS * DEFAULT_NUM_PLAYERS)

NextMatchLoop ==
    \/ DoHarvest
    \/ DoBuild
    \/ PlayerQuits
    \/ EvaluateGame

\* a step that ends a turn, or the evaluation after the last turn
TurnEnds ==
    /\ NextMatchLoop
    /\ \/ player_number' # player_number
       \/ current_round' # current_round
       \/ phase' # phase

\* the players end their turns (a player is not rejected or undecided for
\* ever), and main goes on when play_round has returned
SpecMatchLoop == InitMatchLoop /\ [][NextMatchLoop]_vars /\ WF_vars(TurnEnds)

----------------------------------------------------------------------------
(* What the claims speak of *)

\* perform_action was the last call made (Quit never reaches it in play_round)
Performed == last.player > 0 /\ last.action.type \in {"Build", "Harvest", "Train", "Conquer"}
\* the acting player before and after the last call
Before == last.before[last.player]
After == players[last.player]
\* the players other than the acting one are as they were
OthersUnchanged == \A n \in DOMAIN players : n # last.player => players[n] = last.before[n]
Held(p) == p.archers + p.warriors
Bases(p) == number_of_buildings(p, "Base")
HeldOf(p, unit_type) == IF unit_type = "Archer" THEN p.archers ELSE p.warriors
Deposits(plan) == [i \in DOMAIN plan.fields |-> plan.fields[i].units_occupying]

----------------------------------------------------------------------------
\* C1: whenever perform_action returns an error, the acting player (wood, gold,
\* archers, warriors, buildings) and every cell's deposits are exactly as they
\* were before the call.
C1_ErrorLeavesStateUnchanged ==
    (Performed /\ ~last.ok) =>
        /\ After = Before
        /\ Deposits(game_plan) = Deposits(last.plan_before)

\* a Train of warriors was refused for gold alone: the wood would have sufficed
C1_Witness ==
    /\ Performed /\ ~last.ok
    /\ last.action.type = "Train" /\ last.action.unit_type = "Warrior"
    /\ Before.wood >= 10 * last.action.quantity
    /\ Before.gold < 5 * last.action.quantity
    /\ Held(Before) + last.action.quantity <= 200 * Bases(Before)

\* C2: with positive quantities only, every player's wood and gold are >= 0 in
\* every reachable state.
C2_ResourcesNonNegative ==
    \A n \in DOMAIN players : players[n].wood >= 0 /\ players[n].gold >= 0

\* a payment took a resource exactly to zero
C2_Witness ==
    /\ Performed /\ last.ok /\ last.action.type = "Train"
    /\ Before.gold > 0 /\ After.gold = 0

\* C3: with positive quantities only, every player's held archers and held
\* warriors are >= 0 in every reachable state.
C3_UnitsNonNegative ==
    \A n \in DOMAIN players : players[n].archers >= 0 /\ players[n].warriors >= 0

\* a Conquer sent every unit the player held of its kind
C3_Witness ==
    /\ Performed /\ last.ok /\ last.action.type = "Conquer"
    /\ HeldOf(Before, last.action.unit_type) = last.action.quantity
    /\ HeldOf(After, last.action.unit_type) = 0

\* C4: with positive quantities only, a player never holds more units than the
\* bases give room for: archers + warriors <= 200 * bases.
C4_HeldWithinCapacity ==
    \A n \in DOMAIN players : Held(players[n]) <= 200 * Bases(players[n])

\* a player's bases are full and a further Train was refused
C4_Witness ==
    /\ Performed /\ ~last.ok /\ last.action.type = "Train"
    /\ Bases(After) >= 1
    /\ Held(After) = 200 * Bases(After)

\* C5: Harvest always succeeds; it adds exactly 200 wood and 120 gold and
\* leaves the units, the buildings, the other players and the plan alone.
C5_HarvestGain ==
    (Performed /\ last.action.type = "Harvest") =>
        /\ last.ok
        /\ After = [Before EXCEPT !.wood = @ + 200, !.gold = @ + 120]
        /\ OthersUnchanged
        /\ game_plan = last.plan_before

\* a harvest by a player who owns a base and holds units
C5_Witness ==
    /\ Performed /\ last.action.type = "Harvest" /\ last.ok
    /\ Bases(Before) >= 1 /\ Held(Before) > 0

\* C6: Build(Base) succeeds exactly when wood >= 220 and gold >= 100; then wood
\* falls by 220, gold by 100 and the bases grow by one; otherwise nothing of the
\* player changes.
C6_Build ==
    (Performed /\ last.action.type = "Build") =>
        /\ last.ok <=> (Before.wood >= 220 /\ Before.gold >= 100)
        /\ last.ok =>
              /\ After.wood = Before.wood - 220
              /\ After.gold = Before.gold - 100
              /\ Bases(After) = Bases(Before) + 1
              /\ After.archers = Before.archers /\ After.warriors = Before.warriors
        /\ ~last.ok => After = Before

\* a Build refused for gold alone (the wood sufficed), by a player with a base
C6_Witness ==
    /\ Performed /\ last.action.type = "Build" /\ ~last.ok
    /\ Before.wood >= 220 /\ Before.gold < 100
    /\ Bases(Before) >= 1

\* C7: a Train that would exceed the capacity fails with the capacity error,
\* also when the player could not pay for it either, and changes nothing of
\* the player.
C7_TrainOverCapacity ==
    (/\ Performed /\ last.action.type = "Train"
     /\ Held(Before) + last.action.quantity > 200 * Bases(Before)) =>
        /\ ~last.ok
        /\ last.msg = "over capacity"
        /\ After = Before

\* over the capacity of an owned base and not affordable either
C7_Witness ==
    /\ Performed /\ last.action.type = "Train" /\ last.msg = "over capacity"
    /\ Bases(Before) >= 1
    /\ Held(Before) + last.action.quantity > 200 * Bases(Before)
    /\ Held(Before) + last.action.quantity <= 200 * (Bases(Before) + 1)
    /\ Before.gold < 5 * last.action.quantity

\* the cost of one unit as the claim gives it: <<wood, gold>>
C8_Cost(unit_type) == IF unit_type = "Archer" THEN <<0, 10>> ELSE <<10, 5>>

\* C8: Train(kind, qty), qty > 0, succeeds exactly when held + qty <= 200 *
\* bases and both resources cover qty times the unit cost; then wood and gold
\* fall by exactly that, the held count of the kind grows by qty, and the other
\* pool, the buildings, the other players and the plan are unchanged.
C8_Train ==
    (Performed /\ last.action.type = "Train" /\ last.action.quantity > 0) =>
        LET q == last.action.quantity
            cost == C8_Cost(last.action.unit_type)
        IN  /\ last.ok <=> /\ Held(Before) + q <= 200 * Bases(Before)
                           /\ Before.wood >= q * cost[1]
                           /\ Before.gold >= q * cost[2]
            /\ last.ok =>
                  /\ After = IF last.action.unit_type = "Archer"
                             THEN [Before EXCEPT !.wood = @ - q * cost[1],
                                                 !.gold = @ - q * cost[2],
                                                 !.archers = @ + q]
                             ELSE [Before EXCEPT !.wood = @ - q * cost[1],
                                                 !.gold = @ - q * cost[2],
                                                 !.warriors = @ + q]
                  /\ OthersUnchanged
                  /\ game_plan = last.plan_before

\* several warriors were trained by a player already holding archers
C8_Witness ==
    /\ Performed /\ last.action.type = "Train" /\ last.ok
    /\ last.action.unit_type = "Warrior" /\ last.action.quantity >= 2
    /\ Before.archers > 0
    /\ After.wood < Before.wood /\ After.gold < Before.gold

\* C9: Train with a quantity <= 0 is rejected and changes nothing of the player.
C9_TrainNonPositiveRejected ==
    (Performed /\ last.action.type = "Train" /\ last.action.quantity <= 0) =>
        /\ ~last.ok
        /\ After = Before

\* C10: Conquer with a quantity <= 0 is rejected: no deposit is appended and
\* the held units are unchanged.
C10_ConquerNonPositiveRejected ==
    (Performed /\ last.action.type = "Conquer" /\ last.action.quantity <= 0) =>
        /\ ~last.ok
        /\ Deposits(game_plan) = Deposits(last.plan_before)
        /\ After.archers = Before.archers /\ After.warriors = Before.warriors

\* the position in plan.fields of the cell the last Conquer named, 0 for none
TargetCell == get_game_field(last.plan_before, last.action.x, last.action.y)

\* C11: a Conquer on an existing cell with more units than the player holds of
\* the kind fails with the insufficient-units error; both held counts and the
\* target cell's deposits are unchanged.
C11_ConquerInsufficientUnits ==
    (/\ Performed /\ last.action.type = "Conquer"
     /\ TargetCell # 0
     /\ last.action.quantity > HeldOf(Before, last.action.unit_type)) =>
        /\ ~last.ok
        /\ last.msg = "not enough units"
        /\ After.archers = Before.archers /\ After.warriors = Before.warriors
        /\ game_plan.fields[TargetCell] = last.plan_before.fields[TargetCell]

\* the player holds units of the kind, one fewer than asked for
C11_Witness ==
    /\ Performed /\ last.action.type = "Conquer" /\ ~last.ok
    /\ TargetCell # 0
    /\ HeldOf(Before, last.action.unit_type) > 0
    /\ last.action.quantity = HeldOf(Before, last.action.unit_type) + 1

\* C12: a successful Conquer with 0 < qty <= held lowers the held count of the
\* kind by exactly qty and appends exactly one deposit {the player's nick,
\* kind, qty} at the end of the target cell; wood, gold, buildings, the other
\* pool and every other cell are unchanged.
C12_ConquerSuccess ==
    (/\ Performed /\ last.action.type = "Conquer" /\ last.ok
     /\ 0 < last.action.quantity
     /\ last.action.quantity <= HeldOf(Before, last.action.unit_type)) =>
        LET q == last.action.quantity
            deposit == [owner |-> Before.nick,
                        unit |-> [unit_type |-> last.action.unit_type, quantity |-> q]]
        IN  /\ TargetCell # 0
            /\ After = IF last.action.unit_type = "Archer"
                       THEN [Before EXCEPT !.archers = @ - q]
                       ELSE [Before EXCEPT !.warriors = @ - q]
            /\ Deposits(game_plan) =
                  [Deposits(last.plan_before) EXCEPT ![TargetCell] = Append(@, deposit)]

\* only a part of the held units of the kind was sent
C12_Witness ==
    /\ Performed /\ last.action.type = "Conquer" /\ last.ok
    /\ TargetCell # 0
    /\ 0 < last.action.quantity
    /\ last.action.quantity < HeldOf(Before, last.action.unit_type)
    /\ Len(game_plan.fields[TargetCell].units_occupying) >= 1

\* C13: on a plan of any width x height, a Conquer with x >= width or
\* y >= height fails with the field-not-found error and changes no cell and no
\* player; the lookup never resolves such coordinates to another cell.
C13_ConquerOutOfBounds ==
    (/\ Performed /\ last.action.type = "Conquer"
     /\ \/ last.action.x >= last.plan_before.width
        \/ last.action.y >= last.plan_before.height) =>
        /\ ~last.ok
        /\ last.msg = "field does not exist"
        /\ game_plan = last.plan_before
        /\ players = last.before

\* The aggregate power of an owner on a field as the claims define it, in
\* tenths: the sum over the owner's deposits of 19 per archer, 12 per warrior.
RECURSIVE AggregateTenths(_, _, _)
AggregateTenths(units, owner, n) ==
    IF n = 0 THEN 0
    ELSE AggregateTenths(units, owner, n - 1)
         + (IF units[n].owner = owner
            THEN (IF units[n].unit.unit_type = "Archer" THEN 19 ELSE 12)
                 * units[n].unit.quantity
            ELSE 0)

Aggregate(field, owner) ==
    AggregateTenths(field.units_occupying, owner, Len(field.units_occupying))
MaxAggregate(field) ==
    CHOOSE m \in {Aggregate(field, o) : o \in owners(field)} :
        \A o \in owners(field) : Aggregate(field, o) <= m
\* the owners whose aggregate power is no more than 0.1 below the maximum
Contenders(field) ==
    {o \in owners(field) : MaxAggregate(field) - Aggregate(field, o) <= 1}
\* the fields evaluate_game has resolved
Evaluated == outcome.evaluated
Cells == DOMAIN game_plan.fields

\* C14: evaluate_field returns the single contender when exactly one owner's
\* aggregate power is within 0.1 of the maximum, and no winner when the field
\* has no deposits or two or more contenders.
C14_FieldResolution ==
    Evaluated =>
        \A i \in Cells :
            outcome.fields[i] =
                IF Cardinality(Contenders(game_plan.fields[i])) = 1
                THEN Some(CHOOSE o \in Contenders(game_plan.fields[i]) : TRUE)
                ELSE None

\* C15: an owner whose aggregate power on a field is strictly greater than
\* that of every other owner is returned as the winner of the field.
C15_StrongestWins ==
    Evaluated =>
        \A i \in Cells : \A o \in owners(game_plan.fields[i]) :
            (\A other \in owners(game_plan.fields[i]) \ {o} :
                Aggregate(game_plan.fields[i], o) > Aggregate(game_plan.fields[i], other))
            => outcome.fields[i] = Some(o)

\* C16: when two distinct owners have equal aggregate power on a field and
\* that power is the maximum, evaluate_field returns no winner.
C16_EqualPowersNoWinner ==
    Evaluated =>
        \A i \in Cells :
            (\E o1, o2 \in owners(game_plan.fields[i]) :
                /\ o1 # o2
                /\ Aggregate(game_plan.fields[i], o1) = MaxAggregate(game_plan.fields[i])
                /\ Aggregate(game_plan.fields[i], o2) = MaxAggregate(game_plan.fields[i]))
            => outcome.fields[i] = None

\* two owners reached the same power, one of them by several deposits
C16_Witness ==
    /\ Evaluated
    /\ \E i \in Cells :
          LET field == game_plan.fields[i]
          IN  /\ Cardinality(owners(field)) = 2
              /\ \A o \in owners(field) : Aggregate(field, o) = MaxAggregate(field)
              /\ Len(field.units_occupying) >= 3
              /\ outcome.fields[i] = None

\* the orders a sequence of n deposits can be put in
DepositOrders(n) == {f \in [1..n -> 1..n] : \A a, b \in 1..n : f[a] = f[b] => a = b}

\* C17: evaluate_field does not depend on the order of the deposits: every
\* permutation of a field's deposit sequence yields the same result.
C17_OrderInvariant ==
    Evaluated =>
        \A i \in Cells :
            LET units == game_plan.fields[i].units_occupying
            IN  \A f \in DepositOrders(Len(units)) :
                    evaluate_field([game_plan.fields[i] EXCEPT
                                      !.units_occupying = [k \in 1..Len(units) |-> units[f[k]]]])
                    = outcome.fields[i]

\* the number of fields evaluate_field gave to an owner
Tally(o) == Cardinality({i \in Cells : outcome.fields[i] = Some(o)})
FieldWinners == {outcome.fields[i][1] : i \in {j \in Cells : outcome.fields[j] # None}}
TopTally == {o \in FieldWinners : \A other \in FieldWinners : Tally(other) <= Tally(o)}

\* C18: evaluate tallies the fields each owner won: no field won, no winner of
\* the match; one owner with the maximum tally, that owner wins with that
\* tally; two or more owners with the maximum tally, a draw among exactly those.
C18_MatchResolution ==
    Evaluated =>
        /\ FieldWinners = {} => outcome.game.result = "no winner"
        /\ Cardinality(TopTally) = 1 =>
              /\ outcome.game.result = "winner"
              /\ outcome.game.winner = Some(CHOOSE o \in TopTally : TRUE)
              /\ outcome.game.wins = Tally(CHOOSE o \in TopTally : TRUE)
        /\ Cardinality(TopTally) >= 2 =>
              /\ outcome.game.result = "draw"
              /\ outcome.game.tied = Cardinality(TopTally)
              /\ \A o \in TopTally : outcome.game.wins = Tally(o)

\* a draw: both players won fields, as many as each other, and a field is undecided
C18_Witness ==
    /\ Evaluated
    /\ Cardinality(TopTally) = 2
    /\ \A o \in TopTally : Tally(o) = 1
    /\ \E i \in Cells : outcome.fields[i] = None
    /\ outcome.game.result = "draw"

\* every field of the plan is empty
AllFieldsEmpty == \A i \in DOMAIN game_plan.fields : Deposits(game_plan)[i] = <<>>

\* the step was a successful Conquer
ConquerSucceeded ==
    /\ phase = "playing"
    /\ last'.plan_before = game_plan
    /\ last'.player = player_number
    /\ last'.action.type = "Conquer"
    /\ last'.ok

\* C19: the fields are append-only: the plan starts with every field empty; in
\* every step each field keeps its deposits as a prefix of its later deposits;
\* only a successful Conquer extends a field, by one deposit, and the
\* evaluation changes no field.
C19_AppendOnly ==
    /\ AllFieldsEmpty
    /\ [][/\ DOMAIN game_plan'.fields = DOMAIN game_plan.fields
          /\ \A i \in DOMAIN game_plan.fields :
                LET old == Deposits(game_plan)[i]
                    new == Deposits(game_plan')[i]
                IN  \/ new = old
                    \/ /\ ConquerSucceeded
                       /\ Len(new) = Len(old) + 1
                       /\ SubSeq(new, 1, Len(old)) = old
          /\ phase = "evaluate" => game_plan' = game_plan]_vars

\* a successful Conquer added a deposit to a field that held one already
C19_Witness ==
    /\ Performed /\ last.action.type = "Conquer" /\ last.ok
    /\ TargetCell # 0
    /\ Len(Deposits(last.plan_before)[TargetCell]) >= 1
    /\ Len(Deposits(game_plan)[TargetCell]) = Len(Deposits(last.plan_before)[TargetCell]) + 1

\* C20: an action of one player changes no other player's wood, gold, units or
\* buildings; of what the players share it changes the plan only, and only by
\* appending to one field a deposit owned by the acting player.
C20_OwnStateOnly ==
    Performed =>
        /\ OthersUnchanged
        /\ \/ game_plan = last.plan_before
           \/ \E i \in DOMAIN last.plan_before.fields :
                 /\ DOMAIN game_plan.fields = DOMAIN last.plan_before.fields
                 /\ Deposits(game_plan)[i] # <<>>
                 /\ \E deposit \in {Deposits(game_plan)[i][Len(Deposits(game_plan)[i])]} :
                       /\ deposit.owner = Before.nick
                       /\ game_plan = [last.plan_before EXCEPT
                                         !.fields[i].units_occupying = Append(@, deposit)]

\* a player sent units to a field while the other player holds units too
C20_Witness ==
    /\ Performed /\ last.action.type = "Conquer" /\ last.ok
    /\ game_plan # last.plan_before
    /\ \E n \in DOMAIN players : n # last.player /\ Held(players[n]) > 0

\* a nick was asked for and create_player has answered
Created == last.action.type = "Create"

\* C21: create_player rejects a nick that a player created before has and adds
\* no player then; so the players of a match always have pairwise distinct
\* nicks, and a deposit's owner names one player only.
C21_DistinctNicks ==
    /\ (Created /\ \E n \in DOMAIN last.before : last.before[n].nick = last.action.nick) =>
            ~last.ok /\ players = last.before
    /\ \A n, m \in DOMAIN players : players[n].nick = players[m].nick => n = m
    /\ \A i \in DOMAIN game_plan.fields :
          \A k \in DOMAIN Deposits(game_plan)[i] :
             Cardinality({n \in DOMAIN players :
                            players[n].nick = Deposits(game_plan)[i][k].owner}) = 1

\* the line typed for the second player differs from the first player's line
\* but trims to the same nick, and is rejected
C21_Witness ==
    /\ Created /\ ~last.ok
    /\ Len(players) = 1
    /\ players[1].nick = last.action.nick
    /\ last.action.line # last.action.nick
    /\ last.action.nick # <<>>

\* the quantity of the resource before and after the call, and the quantity passed
BalanceBefore == last.before[1].wood
BalanceAfter == players[1].wood
Amount == last.action.quantity

\* C22: subtract with a quantity greater than the resource's fails and leaves
\* the resource as it was; with a quantity from 0 up to the resource's it
\* succeeds and the resource decreases by exactly that quantity. (No such call
\* overflows i32, so every one of them is among the calls made.)
C22_Subtract ==
    /\ phase = "resource" =>
          \A amount \in Amounts : amount >= 0 => SubInI32(players[1].wood, amount)
    /\ last.action.type = "subtract" =>
          /\ Amount > BalanceBefore => ~last.ok /\ BalanceAfter = BalanceBefore
          /\ (0 <= Amount /\ Amount <= BalanceBefore) =>
                last.ok /\ BalanceAfter = BalanceBefore - Amount

\* one more than the resource holds was asked for
C22_Witness ==
    /\ last.action.type = "subtract" /\ ~last.ok
    /\ BalanceBefore > 0 /\ BalanceBefore < I32Max
    /\ Amount = BalanceBefore + 1

\* C23: add fails and leaves the resource as it was for every quantity <= 0,
\* and for a quantity > 0 succeeds and increases the resource by exactly that
\* quantity.
C23_Add ==
    last.action.type = "add" =>
        /\ Amount <= 0 => ~last.ok /\ BalanceAfter = BalanceBefore
        /\ Amount > 0 => last.ok /\ BalanceAfter = BalanceBefore + Amount

\* what train_max_units told the acting player before the last call
TrainMaxBefore == train_max_units(Before, last.action.unit_type)

\* C24: train_max_units(kind) is the largest number of units of the kind the
\* player can train: when it is n > 0, Train(kind, n) succeeds and Train(kind, m)
\* fails for every m > n.
C24_TrainMax ==
    (Performed /\ last.action.type = "Train" /\ TrainMaxBefore > 0) =>
        /\ last.action.quantity = TrainMaxBefore => last.ok
        /\ last.action.quantity > TrainMaxBefore => ~last.ok

\* the part of C24 that holds: more than train_max_units cannot be trained
C24_NoMoreThanMax ==
    (Performed /\ last.action.type = "Train" /\ TrainMaxBefore > 0
     /\ last.action.quantity > TrainMaxBefore) => ~last.ok

\* the step ends the turn of the player whose turn it is
TurnMoved ==
    \/ player_number' # player_number
    \/ current_round' # current_round
    \/ phase' # phase

\* the step is the confirmed Quit of the player whose turn it is
QuitChosen ==
    /\ phase = "playing"
    /\ last'.player = player_number
    /\ last'.action.type = "Quit"
    /\ TurnMoved

\* after the turn of a round in which somebody has quit: the next player of
\* the round, and the evaluation after the last one
NextInLastRound ==
    /\ current_round' = current_round
    /\ ~continue_game'
    /\ IF player_number < Len(players)
       THEN player_number' = player_number + 1 /\ phase' = "playing"
       ELSE player_number' = player_number /\ phase' = "evaluate"

\* C25: a Quit chosen in a round changes no player and no field; the players
\* later in the order still get their turn in that round; no further round is
\* played; and the turn never comes back to the player who quit before the
\* final evaluation.
C25_Quit ==
    [][/\ QuitChosen =>
             /\ players' = players /\ game_plan' = game_plan
             /\ NextInLastRound
       /\ (phase = "playing" /\ ~continue_game) =>
             /\ ~continue_game' /\ current_round' = current_round
             /\ player_number' >= player_number
             /\ TurnMoved => NextInLastRound
       /\ phase # "playing" =>
             /\ phase' # "playing"
             /\ current_round' = current_round /\ player_number' = player_number]_vars

\* the first player quit, the last player then acted, and the match went to
\* its evaluation with rounds left to play
C25_Witness ==
    /\ phase = "evaluate" /\ ~continue_game
    /\ current_round < rounds
    /\ Performed /\ last.ok /\ last.player = Len(players)
    /\ Len(players) > 1

\* perform_action was called with Actions::Quit
PerformedQuit == last.player > 0 /\ last.action.type = "Quit" /\ last.msg # "quit"

\* C26: perform_action(Quit) returns Ok and changes neither the acting player
\* nor the plan (nor any other player).
C26_PerformQuit ==
    PerformedQuit =>
        /\ last.ok
        /\ players = last.before
        /\ game_plan = last.plan_before

\* Quit was passed by a player who holds resources
C26_Witness ==
    /\ PerformedQuit
    /\ Before.wood > 0

\* C27: a rejected action does not end the turn: the same player is asked
\* again. A turn ends with one action that succeeded (play_round returns true)
\* or with Quit (it returns false and nothing was applied); every step that
\* changes a player or the plan ends the turn, so a turn changes them at most
\* once.
C27_OneActionPerTurn ==
    [][phase = "playing" =>
         /\ (last'.player = player_number /\ ~last'.ok) =>
               /\ ~TurnMoved
               /\ players' = players /\ game_plan' = game_plan
               /\ continue_game' = continue_game
         /\ TurnMoved =>
               /\ last'.player = player_number /\ last'.ok
               /\ last'.plan_before = game_plan /\ last'.before = players
               /\ IF last'.action.type = "Quit"
                  THEN players' = players /\ game_plan' = game_plan /\ ~continue_game'
                  ELSE continue_game' = continue_game \/ current_round' = current_round + 1
         /\ (players' # players \/ game_plan' # game_plan) =>
               TurnMoved /\ last'.action.type # "Quit"]_vars

\* an action was rejected and the same player is still to play
C27_Witness ==
    /\ Performed /\ ~last.ok
    /\ phase = "playing"
    /\ player_number = last.player
    /\ players = last.before /\ game_plan = last.plan_before

\* the turn passes on in the order of creation, round after round
InCreationOrder ==
    IF player_number < Len(players)
    THEN player_number' = player_number + 1 /\ current_round' = current_round
         /\ phase' = "playing"
    ELSE \/ /\ player_number' = 1 /\ current_round' = current_round + 1
            /\ current_round < rounds /\ phase' = "playing"
         \/ /\ player_number' = player_number /\ current_round' = current_round
            /\ phase' = "evaluate"

\* C28: in every round the players take their turns in the order of their
\* creation, each once, and an action is applied for the player whose turn it
\* is; no more than the chosen number of rounds is played; if every turn ends,
\* the final evaluation is reached; it runs once and nothing is applied after
\* it.
C28_RoundsThenEvaluation ==
    /\ [][/\ (phase = "playing" /\ TurnMoved) =>
               /\ last'.player = player_number
               /\ InCreationOrder
          /\ (players' # players \/ game_plan' # game_plan) =>
               /\ phase = "playing" /\ TurnMoved
               /\ \A n \in DOMAIN players : n # player_number => players'[n] = players[n]
          /\ outcome' # outcome => phase = "evaluate"
          /\ phase = "evaluate" =>
               /\ phase' = "done"
               /\ ~outcome.evaluated /\ outcome'.evaluated
               /\ players' = players /\ game_plan' = game_plan
          /\ phase # "done"]_vars
    /\ [](current_round <= rounds)
    /\ <>(phase = "done" /\ outcome.evaluated)

\* all the rounds chosen were played, nobody quit, and the match was evaluated
C28_Witness ==
    /\ phase = "done" /\ outcome.evaluated
    /\ continue_game
    /\ current_round = rounds
    /\ \A n \in DOMAIN players : players[n].wood > 0

\* the coordinates within the plan
InBounds(plan, x, y) == x < plan.width /\ y < plan.height

\* the plan is a grid: width * height fields, a field for every pair of
\* coordinates within the plan and no two fields with the same pair, and
\* get_game_field finds for such a pair the field that stores it
IsGrid(plan) ==
    /\ Len(plan.fields) = plan.width * plan.height
    /\ \A i, j \in DOMAIN plan.fields :
          (plan.fields[i].x = plan.fields[j].x /\ plan.fields[i].y = plan.fields[j].y)
              => i = j
    /\ \A x \in 0..(plan.width - 1), y \in 0..(plan.height - 1) :
          /\ get_game_field(plan, x, y) # 0
          /\ plan.fields[get_game_field(plan, x, y)].x = x
          /\ plan.fields[get_game_field(plan, x, y)].y = y

\* a Conquer within the plan has put its units on the field that stores its
\* coordinates and has left the other fields as they were
OnItsField ==
    (/\ Performed /\ last.action.type = "Conquer" /\ last.ok
     /\ InBounds(last.plan_before, last.action.x, last.action.y)) =>
        \A i \in DOMAIN game_plan.fields :
            IF game_plan.fields[i].x = last.action.x /\ game_plan.fields[i].y = last.action.y
            THEN Len(Deposits(game_plan)[i]) = Len(Deposits(last.plan_before)[i]) + 1
            ELSE Deposits(game_plan)[i] = Deposits(last.plan_before)[i]

\* C29: GamePlan::new(width, height) makes width * height empty fields with
\* pairwise distinct coordinates covering the grid; for x < width and
\* y < height get_game_field(x, y) is the field that stores (x, y); so a
\* successful Conquer(x, y, ..) within the plan appends its deposit to that
\* field and to no other.
C29_FieldAddressing ==
    /\ AllFieldsEmpty
    /\ [](IsGrid(game_plan) /\ OnItsField)

\* units were sent to a field that is neither in the first column nor alone in
\* its column
C29_Witness ==
    /\ Performed /\ last.action.type = "Conquer" /\ last.ok
    /\ InBounds(last.plan_before, last.action.x, last.action.y)
    /\ last.action.x > 0
    /\ game_plan.height > 1
    /\ Deposits(game_plan)[TargetCell] # <<>>

\* the deposits k and k + 1 of the field are one owner's units of one kind
SameOwnerAndKind(units, k) ==
    /\ units[k].owner = units[k + 1].owner
    /\ units[k].unit.unit_type = units[k + 1].unit.unit_type

\* the field with its deposits k and k + 1 made one deposit of both quantities
Merged(field, k) ==
    LET units == field.units_occupying
    IN  [field EXCEPT !.units_occupying =
            [j \in 1..(Len(units) - 1) |->
                IF j < k THEN units[j]
                ELSE IF j = k
                THEN UnitInField_new(units[k].owner,
                                     unit_to_send(units[k].unit.unit_type,
                                                  units[k].unit.quantity
                                                  + units[k + 1].unit.quantity))
                ELSE units[j + 1]]]

\* C30: an owner's deposits are summed: a deposit of q1 + q2 units in place of
\* two deposits of q1 and of q2 units of the same owner and kind gives the same
\* result of evaluate_field, and an owner's deposits of both kinds all count
\* toward the owner's power.
C30_DepositsSummed ==
    Evaluated =>
        \A i \in Cells :
            LET field == game_plan.fields[i]
                units == field.units_occupying
            IN  /\ \A k \in 1..(Len(units) - 1) :
                      SameOwnerAndKind(units, k) =>
                          evaluate_field(Merged(field, k)) = outcome.fields[i]
                /\ \A o \in owners(field) :
                      /\ power_chart(field)[o].t = AggregateTenths(units, o, Len(units))
                      /\ power_chart(field)[o].e < 2^20 /\ power_chart(field)[o].e > -(2^20)

\* the part of C30 that holds: every deposit of an owner is in the owner's power
C30_AllCount ==
    Evaluated =>
        \A i \in Cells : \A o \in owners(game_plan.fields[i]) :
            LET field == game_plan.fields[i]
            IN  /\ power_chart(field)[o].t =
                      AggregateTenths(field.units_occupying, o, Len(field.units_occupying))
                /\ power_chart(field)[o].e < 2^20 /\ power_chart(field)[o].e > -(2^20)

----------------------------------------------------------------------------
\* the player p has a deposit on some cell of the plan
HasDeposit(p) ==
    \E i \in DOMAIN game_plan.fields :
        \E k \in DOMAIN game_plan.fields[i].units_occupying :
            game_plan.fields[i].units_occupying[k].owner = players[p].nick
\* the units p has trained so far, of both kinds
TrainedSoFar(p) == ledger[p].archers + ledger[p].warriors

\* C31: with positive quantities a player has trained successfully only after
\* a successful Build of theirs (Train fails while the player owns no base),
\* has conquered successfully only after a successful Train of theirs, and has
\* no deposit on any cell as long as they have not built.
C31_ProgressOrder ==
    /\ \A p \in DOMAIN players :
          /\ TrainedSoFar(p) > 0 => ledger[p].builds > 0
          /\ ledger[p].conquers > 0 => TrainedSoFar(p) > 0
          /\ ledger[p].builds = 0 => ~HasDeposit(p)
    /\ (Performed /\ last.action.type = "Train" /\ Bases(Before) = 0) => ~last.ok

\* a player who harvested, built and trained has just conquered, their first
\* Conquer, and has a deposit; the other player has not built and has none
C31_Witness ==
    \E p, o \in DOMAIN players :
        /\ Performed /\ last.player = p /\ last.action.type = "Conquer" /\ last.ok
        /\ ledger[p].builds > 0 /\ TrainedSoFar(p) > 0 /\ ledger[p].conquers = 1
        /\ HasDeposit(p)
        /\ ledger[o].builds = 0 /\ ledger[o].harvests > 0 /\ ~HasDeposit(o)

----------------------------------------------------------------------------
\* the units of the kind that the first n deposits of a field hold for the owner
RECURSIVE DepositedIn(_, _, _, _)
DepositedIn(units, owner, unit_type, n) ==
    IF n = 0 THEN 0
    ELSE DepositedIn(units, owner, unit_type, n - 1)
         + (IF units[n].owner = owner /\ units[n].unit.unit_type = unit_type
            THEN units[n].unit.quantity ELSE 0)

\* the same over the first n fields of the plan
RECURSIVE DepositedOn(_, _, _, _)
DepositedOn(plan, owner, unit_type, n) ==
    IF n = 0 THEN 0
    ELSE DepositedOn(plan, owner, unit_type, n - 1)
         + DepositedIn(plan.fields[n].units_occupying, owner, unit_type,
                       Len(plan.fields[n].units_occupying))

\* the units of the kind a player has on the cells of the plan
Deposited(plan, player, unit_type) ==
    DepositedOn(plan, player.nick, unit_type, Len(plan.fields))
\* the units of the kind a player has successfully trained
Trained(entry, unit_type) == IF unit_type = "Archer" THEN entry.archers ELSE entry.warriors

\* C32: for each player and each unit kind, the quantity the player has
\* successfully trained equals the held count of the kind plus the quantities
\* of all the player's deposits of the kind over all cells; a successful
\* Conquer leaves that sum as it was.
C32_UnitConservation ==
    /\ \A p \in DOMAIN players : \A t \in UnitTypes :
          Trained(ledger[p], t) = HeldOf(players[p], t) + Deposited(game_plan, players[p], t)
    /\ (Performed /\ last.action.type = "Conquer" /\ last.ok) =>
          \A t \in UnitTypes :
              HeldOf(After, t) + Deposited(game_plan, After, t)
                  = HeldOf(Before, t) + Deposited(last.plan_before, Before, t)

\* a player has sent a part of the units they trained of a kind and holds the rest
C32_Witness ==
    /\ Performed /\ last.action.type = "Conquer" /\ last.ok
    /\ HeldOf(After, last.action.unit_type) > 0
    /\ Deposited(game_plan, After, last.action.unit_type) > 0
    /\ Trained(ledger[last.player], last.action.unit_type)
           > Deposited(game_plan, After, last.action.unit_type)

----------------------------------------------------------------------------
\* C33: with H the number of the player's successful harvests, B the number
\* of bases owned, A and W the archers and warriors the player has
\* successfully trained, wood = 200*H - 220*B - 10*W and
\* gold = 120*H - 100*B - 10*A - 5*W; a rejected action and a Conquer leave
\* both resources as they were.
C33_ResourceAccounting ==
    /\ \A p \in DOMAIN players :
          LET H == ledger[p].harvests
              B == Bases(players[p])
              A == ledger[p].archers
              W == ledger[p].warriors
          IN  /\ players[p].wood = 200 * H - 220 * B - 10 * W
              /\ players[p].gold = 120 * H - 100 * B - 10 * A - 5 * W
    /\ (Performed /\ (~last.ok \/ last.action.type = "Conquer")) =>
          \A p \in DOMAIN players :
              /\ players[p].wood = last.before[p].wood
              /\ players[p].gold = last.before[p].gold

\* a player who harvested, built a base and trained warriors (they cost both
\* wood and gold) has just been rejected or has conquered
C33_Witness ==
    /\ Performed /\ (~last.ok \/ last.action.type = "Conquer")
    /\ ledger[last.player].harvests > 0 /\ Bases(After) > 0
    /\ ledger[last.player].warriors > 0

====
